---- MODULE Spec2Model ----
(***************************************************************************)
(* AI Operations Desk: the Records -> Policy -> Action -> Audit pipeline   *)
(* of app/graph.py over one shared AgentState, with the agents of          *)
(* app/agents/*.py.  Collaborators (record/document store, LLM, the tool   *)
(* bodies) are inputs: every call either returns a value drawn from a      *)
(* small set or raises.                                                    *)
(*                                                                         *)
(* Optional values are sequences: << >> is None, <<x>> is x.               *)
(* Money is counted in units of 0.0001 USD.                                *)
(***************************************************************************)
EXTENDS Integers, Sequences, FiniteSets, TLC

\* ---------------------------------------------------------------- bounds
MaxRequests == 1
MaxTickets == 1
MaxPolicies == 2
MaxReceipts == 3
MaxFetched == 6

\* ------------------------------------------------------ program constants
NUM_REQUESTS_INCLUDED == 3
NUM_TICKETS_INCLUDED == 5
NUM_ORDERS_INCLUDED == 5

INTENT_REFUND_REQUEST == "refund_request"
INTENT_ORDER_INQUIRY == "order_inquiry"
INTENT_GENERAL == "general"
VALID_INTENTS == {INTENT_REFUND_REQUEST, INTENT_ORDER_INQUIRY, INTENT_GENERAL}

SENTIMENT_NEGATIVE == "negative"
SENTIMENT_POSITIVE == "positive"
SENTIMENT_NEUTRAL == "neutral"
VALID_SENTIMENTS == {SENTIMENT_NEGATIVE, SENTIMENT_POSITIVE, SENTIMENT_NEUTRAL}

available_tools ==
    {"create_ticket", "update_ticket", "escalate_ticket",
     "create_refund_request", "explain_refund_state", "explain_order_state"}

active_statuses == {"in_progress", "open", "escalated"}

BaseCost == 20

\* get_user_orders asks the vector search for one order.
OrderSearchLimit == 1

\* ------------------------------------------------------------ input data
\* The scenarios of main.py: a user id and a query (the query text itself is
\* only echoed, so one stands for all).
SCENARIOS ==
    { [user_query |-> "I need a refund", user_id |-> "user_001", scenario |-> "refund_bluetooth_earbuds"],
      [user_query |-> "Was my costume delivered?", user_id |-> "user_007", scenario |-> "enquire_status_of_order"] }

RefundRequest == [user_id : {"user_001"}, amount : {50}, currency : {"EUR"}, status : {"investigation"}]

\* Tickets: an open one of user_001 and a resolved one of user_007
\* (setup_tickets.py seeds resolved tickets).
Ticket ==
    { [_id |-> "TKT_1", user_id |-> "user_001", status |-> "open", customer_sentiment |-> SENTIMENT_NEGATIVE],
      [_id |-> "TKT_7", user_id |-> "user_007", status |-> "resolved", customer_sentiment |-> SENTIMENT_NEUTRAL] }

Order == [country : {"usa", "FR"}, status : {"shipped"}]

\* Policy documents of the store (setup_policies.py): a current and a previous
\* version per region.
PolicyDocs ==
    { [_id |-> "policy_us_current_001",  region |-> "US", version |-> "v2", effective_from |-> 3, effective_until |-> << >>],
      [_id |-> "policy_us_previous_001", region |-> "US", version |-> "v1", effective_from |-> 1, effective_until |-> <<2>>],
      [_id |-> "policy_eu_current_001",  region |-> "EU", version |-> "v2", effective_from |-> 3, effective_until |-> << >>],
      [_id |-> "policy_eu_previous_001", region |-> "EU", version |-> "v1", effective_from |-> 1, effective_until |-> <<2>>] }

Range(s) == {s[i] : i \in 1..Len(s)}

SeqsUpTo(S, n) == UNION { [1..k -> S] : k \in 0..n }

Injective(s) == \A i, j \in 1..Len(s) : s[i] = s[j] => i = j

\* What a store call can do: return a list or raise.
Returned(v) == [raises |-> FALSE, value |-> v]
Raised(msg) == [raises |-> TRUE, value |-> msg]

RequestFetches == {Returned(l) : l \in SeqsUpTo(RefundRequest, MaxRequests)} \cup {Raised("get_user_refund_requests failed")}
TicketFetches  == {Returned(l) : l \in {s \in SeqsUpTo(Ticket, MaxTickets) : Injective(s)}}
                      \cup {Raised("get_user_tickets failed")}
OrderFetches   == {Returned(l) : l \in SeqsUpTo(Order, OrderSearchLimit)} \cup {Raised("get_user_order failed")}
PolicySearches == {Returned(l) : l \in {s \in SeqsUpTo(PolicyDocs, MaxPolicies) : Injective(s)}}
                      \cup {Raised("search_vector_policies failed")}

\* --------------------------------------------------------------- the graph
\* create_ops_desk_graph: the entry point and the linear edges.
EntryPoint == "records"

\* Mutant: the edge out of records bypasses the policy node.
Edge_SkipPolicy(node) ==
    CASE node = "records" -> "action"
      [] node = "policy"  -> "action"
      [] node = "action"  -> "audit"
      [] node = "audit"   -> "END"

Edge(node) ==
    CASE node = "records" -> "policy"
      [] node = "policy"  -> "action"
      [] node = "action"  -> "audit"
      [] node = "audit"   -> "END"

\* Mutant: the policy node stores its result under the records key.
SlotOf_Swapped(node) ==
    CASE node = "records" -> "records_output"
      [] node = "policy"  -> "records_output"
      [] node = "action"  -> "action_output"
      [] node = "audit"   -> "audit_output"

\* The key of the AgentState in which a node stores its agent's result.
SlotOf(node) ==
    CASE node = "records" -> "records_output"
      [] node = "policy"  -> "policy_output"
      [] node = "action"  -> "action_output"
      [] node = "audit"   -> "audit_output"

\* The prefix of the message a node records when its agent raises.
FailureLabel(node) ==
    CASE node = "records" -> "Records agent failed"
      [] node = "policy"  -> "Policy agent failed"
      [] node = "action"  -> "Action agent failed"
      [] node = "audit"   -> "Audit agent failed"

\* ------------------------------------------------------- the shared state
\* AgentState is a dict: a key is absent until a node assigns it.
Has(d, k) == k \in DOMAIN d
Put(d, k, v) == (k :> v) @@ d

VARIABLES
    state,      \* the AgentState dict handed from node to node
    pc,         \* the node the graph runs next, or the await point inside the action node
    local,      \* locals of ActionAgent.process while the action node is suspended
    toggles,    \* the ToggleManager singleton
    ran,        \* history: the nodes entered, in order
    raised,     \* history: for each node that has finished, why it raised ("" if it did not)
    llm,        \* history: what each classification call did and the label it produced
    attempts,   \* history: the tool plan and, per tool call made, whether it returned or raised,
                \* whether the tool's body raised, and what calling a decorated plain def gives
    retrieved,  \* history: the policies get_policy_context handed to the Policy stage
    parked      \* the invocations of the pipeline that are suspended while this one runs

vars == <<state, pc, local, toggles, ran, raised, llm, attempts, retrieved, parked>>

\* status defaults to "running" (AgentState.status) until a node writes it.
Status == IF Has(state, "status") THEN state.status ELSE "running"

NoLocal == [x \in {} |-> 0]

Init ==
    /\ state \in SCENARIOS
    /\ pc = EntryPoint
    /\ local = NoLocal
    /\ toggles \in [policy_force_old_version : BOOLEAN]
    /\ ran = << >>
    /\ raised = [x \in {} |-> ""]
    /\ llm = [x \in {} |-> ""]
    /\ attempts = [plan |-> << >>, outcomes |-> << >>, bodies |-> << >>, sync_result |-> ""]
    /\ retrieved = << >>
    /\ parked = << >>

\* ------------------------------------------------------------- timing
\* time.time(): the readings of one run are told apart by their order, so a
\* reading is modelled by its number among the readings recorded so far.
TimesOf(st, key) == IF Has(st, key) THEN st[key] ELSE [x \in {} |-> 0]

Now(st) == Cardinality(DOMAIN TimesOf(st, "agent_start_times"))
              + Cardinality(DOMAIN TimesOf(st, "agent_end_times")) + 1

\* Mutant: the end of a stage is written into the map of the starts.
record_agent_timing_StartOnly(st, agent_name, start) ==
    LET s0 == Put(Put(st, "agent_start_times", TimesOf(st, "agent_start_times")),
                  "agent_end_times", TimesOf(st, "agent_end_times"))
    IN  Put(s0, "agent_start_times", Put(s0.agent_start_times, agent_name, Now(st)))

\* The state handed in is the result of the statements before the call; s
\* stands for it once it is computed.
record_agent_timing(st, agent_name, start) ==
    CHOOSE timed \in
        { LET s0 == Put(Put(s, "agent_start_times", TimesOf(s, "agent_start_times")),
                        "agent_end_times", TimesOf(s, "agent_end_times"))
          IN  IF start
                  THEN Put(s0, "agent_start_times", Put(s0.agent_start_times, agent_name, Now(s)))
                  ELSE Put(s0, "agent_end_times", Put(s0.agent_end_times, agent_name, Now(s)))
          : s \in {st} } : TRUE

\* --------------------------------------------------------- Records stage
\* Mutant: the slice keeps the last n items.
Take_Last(s, n) == IF Len(s) <= n THEN s ELSE SubSeq(s, Len(s) - n + 1, Len(s))

Take(s, n) == IF Len(s) <= n THEN s ELSE SubSeq(s, 1, n)

\* RecordsAgent.process: the three fetches in order; the first one that raises
\* ends the call.
RecordsProcess(rq, tk, od) ==
    IF rq.raises THEN Raised(rq.value)
    ELSE IF tk.raises THEN Raised(tk.value)
    ELSE IF od.raises THEN Raised(od.value)
    ELSE Returned([requests |-> Take(rq.value, NUM_REQUESTS_INCLUDED),
                   tickets  |-> Take(tk.value, NUM_TICKETS_INCLUDED),
                   orders   |-> Take(od.value, NUM_ORDERS_INCLUDED)])

\* The body shared by the four nodes: store the result in the node's slot, or
\* record the failure.
\* Mutant: the except branch records the message but leaves status alone.
NodeResult_KeepStatus(st, node, res) ==
    IF res.raises
        THEN Put(st, "error", <<FailureLabel(node), res.value>>)
        ELSE Put(st, SlotOf(node), res.value)

\* Mutant: the except branch keeps an error message that is already there.
NodeResult_FirstError(st, node, res) ==
    IF res.raises
        THEN Put(IF Has(st, "error") THEN st ELSE Put(st, "error", <<FailureLabel(node), res.value>>),
                 "status", "error")
        ELSE Put(st, SlotOf(node), res.value)

NodeResult(st, node, res) ==
    IF res.raises
        THEN Put(Put(st, "error", <<FailureLabel(node), res.value>>), "status", "error")
        ELSE Put(st, SlotOf(node), res.value)

records_node ==
    /\ pc = "records"
    /\ \E rq \in RequestFetches, tk \in TicketFetches, od \in OrderFetches :
         LET res == RecordsProcess(rq, tk, od) IN
         /\ state' = record_agent_timing(
                         NodeResult(record_agent_timing(state, "records", TRUE), "records", res),
                         "records", FALSE)
         /\ raised' = Put(raised, "records", IF res.raises THEN "store" ELSE "")
    /\ ran' = Append(ran, "records")
    /\ pc' = Edge("records")
    /\ UNCHANGED <<local, toggles, llm, attempts, retrieved, parked>>

\* ---------------------------------------------------------- Policy stage
\* str.upper() on the country strings the orders carry.
Upper(c) ==
    CASE c = "usa" -> "USA"
      [] c = "us"  -> "US"
      [] c = "fr"  -> "FR"
      [] OTHER     -> c

\* The region of an order (<< >> when there is none).
DeriveRegion(order) ==
    IF order = << >> THEN "US"
    ELSE LET country == Upper(order[1].country) IN
         IF country \in {"US", "USA", "UNITED STATES"} THEN "US"
         ELSE IF country \in {"UK", "GB", "UNITED KINGDOM", "FR", "FRANCE", "DE", "GERMANY", "IT", "ITALY", "ES", "SPAIN"} THEN "EU"
         ELSE "EU"

\* get_policy_context: the search result filtered by region, order kept.
get_policy_context(search, region) ==
    LET InRegion(p) == p.region = region IN SelectSeq(search, InRegion)

\* list.sort(key=effective_from, reverse=True): stable, newest first.
RECURSIVE InsertDesc(_, _)
InsertDesc(s, p) ==
    IF s = << >> THEN <<p>>
    ELSE IF Head(s).effective_from >= p.effective_from
         THEN <<Head(s)>> \o InsertDesc(Tail(s), p)
         ELSE <<p>> \o s

RECURSIVE SortNewestFirst(_)
SortNewestFirst(s) ==
    IF s = << >> THEN << >>
    ELSE InsertDesc(SortNewestFirst(SubSeq(s, 1, Len(s) - 1)), s[Len(s)])

IsExpired(p) == p.effective_until # << >>

\* list.sort(key=effective_from): stable, oldest first.
RECURSIVE InsertAsc(_, _)
InsertAsc(s, p) ==
    IF s = << >> THEN <<p>>
    ELSE IF Head(s).effective_from <= p.effective_from
         THEN <<Head(s)>> \o InsertAsc(Tail(s), p)
         ELSE <<p>> \o s

RECURSIVE SortOldestFirst(_)
SortOldestFirst(s) ==
    IF s = << >> THEN << >>
    ELSE InsertAsc(SortOldestFirst(SubSeq(s, 1, Len(s) - 1)), s[Len(s)])

\* Mutant: the expired policies are sorted without reverse=True.
SelectPolicies_ExpiredOldestFirst(policies, force_old) ==
    LET use_latest == ~force_old
        expired_policies == SelectSeq(policies, IsExpired)
    IN  IF ~use_latest /\ policies # << >>
            THEN IF expired_policies # << >>
                    THEN SortOldestFirst(expired_policies)
                    ELSE policies
            ELSE policies

\* Mutant: the policies that are not replaced are sorted oldest first.
SelectPolicies_SortsCurrent(policies, force_old) ==
    LET use_latest == ~force_old
        expired_policies == SelectSeq(policies, IsExpired)
    IN  IF ~use_latest /\ policies # << >>
            THEN IF expired_policies # << >>
                    THEN SortNewestFirst(expired_policies)
                    ELSE SortOldestFirst(policies)
            ELSE SortOldestFirst(policies)

\* PolicyAgent.process after the region is known and the search has returned.
SelectPolicies(policies, force_old) ==
    LET use_latest == ~force_old
        expired_policies == SelectSeq(policies, IsExpired)
    IN  IF ~use_latest /\ policies # << >>
            THEN IF expired_policies # << >>
                    THEN SortNewestFirst(expired_policies)
                    ELSE policies
            ELSE policies

PolicyProcess(order, search, force_old) ==
    LET region == DeriveRegion(order) IN
    IF search.raises THEN Raised(search.value)
    ELSE Returned([policies |-> SelectPolicies(get_policy_context(search.value, region), force_old)])

\* Mutant: process switches the forcing toggle off once it has used it.
TogglesAfterPolicy_OneShot(t) == [t EXCEPT !.policy_force_old_version = FALSE]

\* The ToggleManager singleton after process: it is read, never assigned.
TogglesAfterPolicy(t) == t

\* ToggleManager is a singleton: the agent built for an invocation holds the
\* store itself, and process reads the attribute when it runs.  seen is what an
\* earlier invocation of the process read, if there was one.
\* Mutant: the value read first is kept for the invocations that follow.
ReadToggle_Cached(t, seen) == IF seen = << >> THEN t.policy_force_old_version ELSE seen[1]

ReadToggle(t, seen) == t.policy_force_old_version

\* ToggleManager.set_toggle, and the assignment in run_scenario.
set_toggle(t, name, value) == [t EXCEPT ![name] = value]

\* The order the policy node hands to the agent: the first order of the
\* records output when there is one.
FirstOrder(st) ==
    IF Has(st, "records_output") /\ st.records_output.orders # << >>
        THEN <<st.records_output.orders[1]>>
        ELSE << >>

policy_node ==
    /\ pc = "policy"
    /\ \E search \in PolicySearches :
         LET res == PolicyProcess(FirstOrder(state), search, ReadToggle(toggles, << >>)) IN
         /\ state' = record_agent_timing(
                         NodeResult(record_agent_timing(state, "policy", TRUE), "policy", res),
                         "policy", FALSE)
         /\ raised' = Put(raised, "policy", IF res.raises THEN "store" ELSE "")
         /\ retrieved' = IF search.raises THEN << >>
                          ELSE get_policy_context(search.value, DeriveRegion(FirstOrder(state)))
    /\ toggles' = TogglesAfterPolicy(toggles)
    /\ ran' = Append(ran, "policy")
    /\ pc' = Edge("policy")
    /\ UNCHANGED <<local, llm, attempts, parked>>

\* ---------------------------------------------------------- Action stage
\* What llm.complete can do: return a text or raise.  A text is a word, possibly
\* wrapped in whitespace and possibly with upper-case letters.
LLMWords == VALID_SENTIMENTS \cup VALID_INTENTS \cup {"unable to generate response"}
LLMResponses ==
    {Returned([word |-> w, padded |-> b, upper |-> b]) : w \in LLMWords, b \in BOOLEAN}
        \cup {Raised("llm.complete failed")}

\* str.strip() and str.lower() on such a text.
Strip(t) == [t EXCEPT !.padded = FALSE]
Lower(t) == [t EXCEPT !.upper = FALSE]
Plain(w) == [word |-> w, padded |-> FALSE, upper |-> FALSE]

\* Mutant: the except branch hands back the exception text, not the default.
_classify_intent_NoDefault(r) ==
    IF r.raises THEN r.value
    ELSE LET intent == Lower(Strip(r.value)) IN
         IF \E v \in VALID_INTENTS : intent = Plain(v) THEN intent.word ELSE INTENT_GENERAL

\* _classify_intent from the completion on: validate, default to general.
_classify_intent(r) ==
    IF r.raises THEN INTENT_GENERAL
    ELSE LET intent == Lower(Strip(r.value)) IN
         IF \E v \in VALID_INTENTS : intent = Plain(v) THEN intent.word ELSE INTENT_GENERAL

\* Mutant: an out-of-enumeration answer is handed back as it came.
_classify_sentiment_NoValidation(r) ==
    IF r.raises THEN SENTIMENT_NEUTRAL
    ELSE Lower(Strip(r.value)).word

\* _classify_sentiment from the completion on: validate, default to neutral.
_classify_sentiment(r) ==
    IF r.raises THEN SENTIMENT_NEUTRAL
    ELSE LET sentiment == Lower(Strip(r.value)) IN
         IF \E v \in VALID_SENTIMENTS : sentiment = Plain(v) THEN sentiment.word ELSE SENTIMENT_NEUTRAL

\* How a classification call ended, for the history.
CallKind(r) == IF r.raises THEN "raised" ELSE "returned"

\* Mutant: the lookup does not compare the ticket's user id.
_find_existing_ticket_AnyUser(tickets, user_id) ==
    LET active == {i \in 1..Len(tickets) : tickets[i].status \in active_statuses}
        any    == 1..Len(tickets)
        First(S) == CHOOSE i \in S : \A j \in S : i <= j
    IN  IF active # {} THEN <<tickets[First(active)]>>
        ELSE IF any # {} THEN <<tickets[First(any)]>>
        ELSE << >>

\* _find_existing_ticket: the first active ticket of the user, else the first
\* ticket of the user, else None.
_find_existing_ticket(tickets, user_id) ==
    LET active == {i \in 1..Len(tickets) :
                      tickets[i].user_id = user_id /\ tickets[i].status \in active_statuses}
        any    == {i \in 1..Len(tickets) : tickets[i].user_id = user_id}
        First(S) == CHOOSE i \in S : \A j \in S : i <= j
    IN  IF active # {} THEN <<tickets[First(active)]>>
        ELSE IF any # {} THEN <<tickets[First(any)]>>
        ELSE << >>

\* Mutant: the two refund tools are appended in the other order.
_determine_tools_ExplainFirst(latest_sentiment, intent, tickets, user_id) ==
    LET existing_ticket == _find_existing_ticket(tickets, user_id) IN
       (IF latest_sentiment = SENTIMENT_NEGATIVE THEN <<"escalate_ticket">> ELSE << >>)
    \o (IF intent = INTENT_REFUND_REQUEST THEN <<"explain_refund_state", "create_refund_request">> ELSE << >>)
    \o (IF intent = INTENT_ORDER_INQUIRY THEN <<"explain_order_state">> ELSE << >>)
    \o (IF existing_ticket # << >> THEN <<"update_ticket">> ELSE <<"create_ticket">>)

\* Mutant: the escalation is appended after the other tools.
_determine_tools_EscalateLast(latest_sentiment, intent, tickets, user_id) ==
    LET existing_ticket == _find_existing_ticket(tickets, user_id) IN
       (IF intent = INTENT_REFUND_REQUEST THEN <<"create_refund_request", "explain_refund_state">> ELSE << >>)
    \o (IF intent = INTENT_ORDER_INQUIRY THEN <<"explain_order_state">> ELSE << >>)
    \o (IF existing_ticket # << >> THEN <<"update_ticket">> ELSE <<"create_ticket">>)
    \o (IF latest_sentiment = SENTIMENT_NEGATIVE THEN <<"escalate_ticket">> ELSE << >>)

\* Mutant: a ticket is touched only when another tool is planned.
_determine_tools_TicketWithOthers(latest_sentiment, intent, tickets, user_id) ==
    LET existing_ticket == _find_existing_ticket(tickets, user_id)
        others ==
               (IF latest_sentiment = SENTIMENT_NEGATIVE THEN <<"escalate_ticket">> ELSE << >>)
            \o (IF intent = INTENT_REFUND_REQUEST THEN <<"create_refund_request", "explain_refund_state">> ELSE << >>)
            \o (IF intent = INTENT_ORDER_INQUIRY THEN <<"explain_order_state">> ELSE << >>)
    IN  IF others = << >> THEN << >>
        ELSE others \o (IF existing_ticket # << >> THEN <<"update_ticket">> ELSE <<"create_ticket">>)

\* _determine_tools once the intent is known.
_determine_tools(latest_sentiment, intent, tickets, user_id) ==
    LET existing_ticket == _find_existing_ticket(tickets, user_id) IN
       (IF latest_sentiment = SENTIMENT_NEGATIVE THEN <<"escalate_ticket">> ELSE << >>)
    \o (IF intent = INTENT_REFUND_REQUEST THEN <<"create_refund_request", "explain_refund_state">> ELSE << >>)
    \o (IF intent = INTENT_ORDER_INQUIRY THEN <<"explain_order_state">> ELSE << >>)
    \o (IF existing_ticket # << >> THEN <<"update_ticket">> ELSE <<"create_ticket">>)

\* _calculate_tool_cost.
_calculate_tool_cost(tool_name) ==
    CASE tool_name = "create_ticket"         -> 15
      [] tool_name = "update_ticket"         -> 10
      [] tool_name = "escalate_ticket"       -> 30
      [] tool_name = "create_refund_request" -> 15
      [] tool_name = "explain_refund_state"  -> 5
      [] tool_name = "explain_order_state"   -> 5
      [] OTHER                               -> 10

Succeeded(receipt) == 200 <= receipt.status /\ receipt.status < 300

\* The label that stands for a tool in a resolution.
ResolutionLabel(tool_name) ==
    CASE tool_name = "create_refund_request" -> "refund_request_created"
      [] tool_name = "escalate_ticket"       -> "ticket_escalated"
      [] tool_name = "update_ticket"         -> "ticket_updated"
      [] tool_name = "create_ticket"         -> "ticket_created"
      [] tool_name = "explain_refund_state"  -> "refund_state_explained"
      [] OTHER                               -> "action_failed"

\* Mutant: the label of the first successful receipt, in receipt order.
_determine_resolution_FirstReceipt(tool_receipts) ==
    LET ok == {j \in 1..Len(tool_receipts) : Succeeded(tool_receipts[j])} IN
    IF tool_receipts = << >> THEN "no_action_required"
    ELSE IF ok = {} THEN "action_failed"
    ELSE ResolutionLabel(tool_receipts[CHOOSE i \in ok : \A j \in ok : i <= j].tool)

\* _determine_resolution.
_determine_resolution(tool_receipts) ==
    LET successful_tools == {tool_receipts[i].tool : i \in {j \in 1..Len(tool_receipts) : Succeeded(tool_receipts[j])}} IN
    IF tool_receipts = << >> THEN "no_action_required"
    ELSE IF "create_refund_request" \in successful_tools THEN "refund_request_created"
    ELSE IF "escalate_ticket" \in successful_tools THEN "ticket_escalated"
    ELSE IF "update_ticket" \in successful_tools THEN "ticket_updated"
    ELSE IF "create_ticket" \in successful_tools THEN "ticket_created"
    ELSE IF "explain_refund_state" \in successful_tools THEN "refund_state_explained"
    ELSE "action_failed"

\* The dict a tool body returns.  Random identifiers are written "#".
ToolResponse(tool_name, st, latest_sentiment) ==
    LET ro == st.records_output
        existing == _find_existing_ticket(ro.tickets, st.user_id)
    IN  CASE tool_name = "create_refund_request" ->
                [status |-> 201, refund_request_id |-> "RR_#", user_id |-> st.user_id,
                 amount |-> IF ro.requests # << >> THEN ro.requests[1].amount ELSE 0,
                 currency |-> IF ro.requests # << >> THEN ro.requests[1].currency ELSE "USD",
                 refund_status |-> "investigation", status_message |-> "Refund request created"]
          [] tool_name = "create_ticket" ->
                [status |-> 201, ticket_id |-> "TKT_#", user_id |-> st.user_id,
                 customer_sentiment |-> latest_sentiment, status_message |-> "Ticket created"]
          [] tool_name = "update_ticket" ->
                [status |-> 200,
                 ticket_id |-> IF existing # << >> THEN existing[1]._id ELSE "TKT_#",
                 customer_sentiment |-> latest_sentiment, status_message |-> "Ticket updated"]
          [] tool_name = "escalate_ticket" ->
                [status |-> 200, ticket_id |-> "TKT_#", escalation_level |-> "tier2",
                 assigned_agent |-> "agent_#", status_message |-> "Ticket escalated to tier 2 support"]
          [] tool_name = "explain_refund_state" ->
                [status |-> 200,
                 explanation |-> IF ro.requests = << >> THEN "no refund requests found" ELSE ro.requests[1].status,
                 status_message |-> "Refund state explained"]
          [] tool_name = "explain_order_state" ->
                [status |-> 200,
                 explanation |-> IF ro.orders = << >> THEN "no orders found"
                                 ELSE IF st.user_id = "user_007" THEN "delivered"
                                 ELSE ro.orders[1].status,
                 status_message |-> "Order state explained"]

\* The tools written as "def", not "async def": calling one runs its body to
\* the end and gives what the galileo log wrapper returns for it.
sync_tools ==
    {"create_ticket", "update_ticket", "escalate_ticket", "create_refund_request", "explain_refund_state"}

\* What the wrapper of a plain def returns: the body's dict as it is, which
\* "await" rejects with a TypeError, or something awaitable that yields it.
\* The wrapper is not part of this repository, so both are possible.
LogWrapperResults == {"plain", "awaitable"}

\* Mutant: every tool is a coroutine function, its call always awaitable.
AwaitRaises_AllAsync(tool_name, sync_result) == FALSE

\* "response = await tool_func(...)" once the body has returned its dict:
\* whether the await itself raises.
AwaitRaises(tool_name, sync_result) == tool_name \in sync_tools /\ sync_result = "plain"

\* Whether a tool's body raises.  When the await of its result raises anyway
\* the receipt is the same failure receipt either way, and the body is taken
\* to have returned.
BodyOutcomes(tool_name, sync_result) ==
    IF AwaitRaises(tool_name, sync_result) THEN {FALSE} ELSE BOOLEAN

\* Mutant: the except branch builds its receipt like the try branch does, with
\* the status the payload carries or 200.
_execute_tool_DefaultStatus(tool_name, st, latest_sentiment, call_raises) ==
    IF call_raises
        THEN [tool |-> tool_name, status |-> 200, response |-> [error |-> "tool call failed"]]
        ELSE LET response == ToolResponse(tool_name, st, latest_sentiment) IN
             [tool |-> tool_name, status |-> response.status, response |-> response]

\* _execute_tool: the receipt of a call that returned, or of one that raised.
_execute_tool(tool_name, st, latest_sentiment, call_raises) ==
    IF call_raises
        THEN [tool |-> tool_name, status |-> 500, response |-> [error |-> "tool call failed"]]
        ELSE LET response == ToolResponse(tool_name, st, latest_sentiment) IN
             [tool |-> tool_name, status |-> response.status, response |-> response]

\* Mutant: the loop over the plan is left after a failure receipt.
MoreTools_StopOnFailure(i, tools_to_call, receipt) ==
    i < Len(tools_to_call) /\ receipt.status # 500

\* "for tool_name in tools_to_call": whether the loop has a next turn after the
\* i-th tool and its receipt.
MoreTools(i, tools_to_call, receipt) == i < Len(tools_to_call)

\* Mutant: only a tool that succeeded is charged.
AddCost_SuccessOnly(total_cost, tool_name, receipt) ==
    IF Succeeded(receipt) THEN total_cost + _calculate_tool_cost(tool_name) ELSE total_cost

\* "total_cost += self._calculate_tool_cost(tool_name)" after a receipt.
AddCost(total_cost, tool_name, receipt) == total_cost + _calculate_tool_cost(tool_name)

\* The end of ActionAgent.process and of the action node's try block.
ActionReturn(st, tool_receipts, total_cost) ==
    NodeResult(st, "action", Returned(
        [resolution |-> _determine_resolution(tool_receipts),
         tool_receipts |-> tool_receipts,
         cost_token_usd |-> total_cost]))

\* The awaits of ActionAgent.process in the order the coroutine reaches them:
\* _classify_sentiment, then _determine_tools with _classify_intent, then the
\* loop over the plan.
\* Mutant: process determines the tools before it classifies the sentiment.
ActionEdge_IntentFirst(point) ==
    CASE point = "action"          -> "await_intent"
      [] point = "await_intent"    -> "await_sentiment"
      [] point = "await_sentiment" -> "await_tool"

ActionEdge(point) ==
    CASE point = "action"          -> "await_sentiment"
      [] point = "await_sentiment" -> "await_intent"
      [] point = "await_intent"    -> "await_tool"

\* The action node up to its first await.  With no records output the first
\* statement of process, records_output.tickets, raises.
action_node ==
    /\ pc = "action"
    /\ ran' = Append(ran, "action")
    /\ IF ~Has(state, "records_output")
          THEN /\ state' = record_agent_timing(
                               NodeResult(record_agent_timing(state, "action", TRUE), "action",
                                          Raised("'NoneType' object has no attribute 'tickets'")),
                               "action", FALSE)
               /\ raised' = Put(raised, "action", "no_records")
               /\ pc' = Edge("action")
               /\ local' = NoLocal
          ELSE /\ pc' = ActionEdge("action")
               /\ local' = [existing_sentiment |->
                               IF state.records_output.tickets # << >>
                                   THEN <<state.records_output.tickets[1].customer_sentiment>>
                                   ELSE << >>]
               /\ state' = record_agent_timing(state, "action", TRUE)
               /\ UNCHANGED raised
    /\ UNCHANGED <<toggles, llm, attempts, retrieved, parked>>

\* The sentiment completion returns or raises; process goes on into
\* _determine_tools up to the intent completion.
action_after_sentiment ==
    /\ pc = "await_sentiment"
    /\ \E r \in LLMResponses :
         /\ local' = [latest_sentiment |-> _classify_sentiment(r)]
         /\ llm' = Put(llm, "sentiment", [kind |-> CallKind(r), label |-> _classify_sentiment(r)])
    /\ pc' = ActionEdge("await_sentiment")
    /\ UNCHANGED <<state, toggles, ran, raised, attempts, retrieved, parked>>

\* The intent completion returns or raises; the plan is fixed and the loop over
\* it starts.
action_after_intent ==
    /\ pc = "await_intent"
    /\ \E r \in LLMResponses :
         LET intent == _classify_intent(r)
             tools == _determine_tools(local.latest_sentiment, intent,
                                     state.records_output.tickets, state.user_id)
         IN  /\ llm' = Put(llm, "intent", [kind |-> CallKind(r), label |-> intent])
             /\ \E w \in LogWrapperResults : attempts' = [attempts EXCEPT !.plan = tools, !.sync_result = w]
             /\ IF tools = << >>
                   THEN /\ state' = record_agent_timing(ActionReturn(state, << >>, BaseCost), "action", FALSE)
                        /\ raised' = Put(raised, "action", "")
                        /\ local' = NoLocal
                        /\ pc' = Edge("action")
                   ELSE /\ local' = [latest_sentiment |-> local.latest_sentiment,
                                     tools_to_call |-> tools,
                                     tool_receipts |-> << >>,
                                     total_cost |-> BaseCost,
                                     i |-> 1]
                        /\ pc' = ActionEdge("await_intent")
                        /\ UNCHANGED <<state, raised>>
    /\ UNCHANGED <<toggles, ran, retrieved, parked>>

\* One turn of the loop: the tool's body returns or raises, the await of its
\* result returns or raises, the receipt and the cost are recorded; after the
\* last tool process returns and the node ends.
action_after_tool ==
    /\ pc = "await_tool"
    /\ \E body_raises \in BodyOutcomes(local.tools_to_call[local.i], attempts.sync_result) :
         LET tool_name == local.tools_to_call[local.i]
             call_raises == body_raises \/ AwaitRaises(tool_name, attempts.sync_result)
             receipt == _execute_tool(tool_name, state, local.latest_sentiment, call_raises)
             tool_receipts == IF tool_name \in available_tools
                                 THEN Append(local.tool_receipts, receipt)
                                 ELSE local.tool_receipts
             total_cost == IF tool_name \in available_tools
                              THEN AddCost(local.total_cost, tool_name, receipt)
                              ELSE local.total_cost
         IN  /\ attempts' = [attempts EXCEPT !.outcomes = Append(@, IF call_raises THEN "raised" ELSE "returned"),
                                             !.bodies = Append(@, IF body_raises THEN "raised" ELSE "returned")]
             /\ IF MoreTools(local.i, local.tools_to_call, receipt)
                   THEN /\ local' = [local EXCEPT !.tool_receipts = tool_receipts,
                                                  !.total_cost = total_cost,
                                                  !.i = local.i + 1]
                        /\ UNCHANGED <<state, raised, pc>>
                   ELSE /\ state' = record_agent_timing(ActionReturn(state, tool_receipts, total_cost), "action", FALSE)
                        /\ raised' = Put(raised, "action", "")
                        /\ local' = NoLocal
                        /\ pc' = Edge("action")
    /\ UNCHANGED <<toggles, ran, llm, retrieved, parked>>

\* ----------------------------------------------------------- Audit stage
\* dict.get(key, default) on a tool response.
GetOr(d, k, default) == IF Has(d, k) THEN d[k] ELSE default

RECURSIVE SumAmounts(_)
SumAmounts(rs) == IF rs = << >> THEN 0 ELSE Head(rs).amount + SumAmounts(Tail(rs))

\* The tool-specific detail line of one receipt (none for explain_order_state).
DetailLine(receipt) ==
    LET tool_name == receipt.tool
        response == receipt.response
    IN  CASE tool_name = "create_refund_request" ->
                <<[kind |-> "detail", tool |-> tool_name, text |-> "Created refund request",
                   id |-> GetOr(response, "refund_request_id", "unknown"),
                   amount |-> GetOr(response, "amount", 0),
                   currency |-> GetOr(response, "currency", "USD")]>>
          [] tool_name = "create_ticket" ->
                <<[kind |-> "detail", tool |-> tool_name, text |-> "Created support ticket",
                   id |-> GetOr(response, "ticket_id", "unknown"),
                   sentiment |-> GetOr(response, "customer_sentiment", "unknown")]>>
          [] tool_name = "update_ticket" ->
                <<[kind |-> "detail", tool |-> tool_name, text |-> "Updated support ticket",
                   id |-> GetOr(response, "ticket_id", "unknown"),
                   sentiment |-> GetOr(response, "customer_sentiment", "unknown")]>>
          [] tool_name = "escalate_ticket" ->
                <<[kind |-> "detail", tool |-> tool_name, text |-> "Escalated ticket",
                   id |-> GetOr(response, "ticket_id", "unknown"),
                   level |-> GetOr(response, "escalation_level", "unknown"),
                   agent |-> GetOr(response, "assigned_agent", "unknown")]>>
          [] tool_name = "explain_refund_state" ->
                <<[kind |-> "detail", tool |-> tool_name, text |-> "Provided refund explanation",
                   explanation |-> GetOr(response, "explanation", "No explanation provided")]>>
          [] OTHER -> << >>

RECURSIVE DetailLines(_)
DetailLines(receipts) ==
    IF receipts = << >> THEN << >> ELSE DetailLine(Head(receipts)) \o DetailLines(Tail(receipts))

\* Mutant: the warning is given only when every policy is expired.
DriftWarning_AllExpired(policies) ==
    LET expired_policies == SelectSeq(policies, IsExpired) IN
    IF expired_policies # << >> /\ Len(expired_policies) = Len(policies)
        THEN <<[kind |-> "drift", version |-> expired_policies[1].version,
                effective_until |-> expired_policies[1].effective_until[1]]>>
        ELSE << >>

\* The "Policy drift detected" part of the rationale, if any.
DriftWarning(policies) ==
    LET expired_policies == SelectSeq(policies, IsExpired) IN
    IF expired_policies # << >>
        THEN <<[kind |-> "drift", version |-> expired_policies[1].version,
                effective_until |-> expired_policies[1].effective_until[1]]>>
        ELSE << >>

\* _generate_rationale: the parts that are joined with " | ", in order.
_generate_rationale(st) ==
    LET policies == IF Has(st, "policy_output") THEN st.policy_output.policies ELSE << >>
        requests == IF Has(st, "records_output") THEN st.records_output.requests ELSE << >>
        tickets  == IF Has(st, "records_output") THEN st.records_output.tickets ELSE << >>
        tool_receipts == IF Has(st, "action_output") THEN st.action_output.tool_receipts ELSE << >>
        Failed(r) == ~Succeeded(r)
        successful_tools == SelectSeq(tool_receipts, Succeeded)
        failed_tools == SelectSeq(tool_receipts, Failed)
    IN  <<[kind |-> "request", user_id |-> st.user_id, query |-> st.user_query]>>
     \o (IF policies # << >>
            THEN <<[kind |-> "policies", count |-> Len(policies),
                    regions |-> {p.region : p \in Range(policies)},
                    versions |-> {p.version : p \in Range(policies)}]>>
                 \o DriftWarning(policies)
            ELSE <<[kind |-> "no_policies"]>>)
     \o (IF requests # << >>
            THEN <<[kind |-> "requests", count |-> Len(requests),
                    statuses |-> {r.status : r \in Range(requests)},
                    total |-> SumAmounts(requests), currency |-> requests[1].currency]>>
            ELSE <<[kind |-> "no_requests"]>>)
     \o (IF tickets # << >>
            THEN <<[kind |-> "tickets", count |-> Len(tickets),
                    statuses |-> {t.status : t \in Range(tickets)},
                    sentiments |-> {t.customer_sentiment : t \in Range(tickets)}]>>
            ELSE <<[kind |-> "no_tickets"]>>)
     \o (IF tool_receipts # << >>
            THEN (IF successful_tools # << >>
                     THEN <<[kind |-> "succeeded",
                             tools |-> [i \in 1..Len(successful_tools) |-> successful_tools[i].tool]]>>
                     ELSE << >>)
              \o (IF failed_tools # << >>
                     THEN <<[kind |-> "failed",
                             tools |-> [i \in 1..Len(failed_tools) |->
                                           <<failed_tools[i].tool, failed_tools[i].status>>]]>>
                     ELSE << >>)
              \o DetailLines(tool_receipts)
            ELSE <<[kind |-> "no_tools"]>>)
     \o (IF Has(st, "action_output")
            THEN <<[kind |-> "resolution", resolution |-> st.action_output.resolution]>>
                 \o (IF st.action_output.cost_token_usd > 0
                        THEN <<[kind |-> "cost", cost |-> st.action_output.cost_token_usd]>>
                        ELSE << >>)
            ELSE <<[kind |-> "action_failed_note"]>>)

\* Mutant: the audit keeps the receipts of the tools that succeeded only.
AuditProcess_SuccessfulReceipts(st, validation_raises) ==
    LET policies == IF Has(st, "policy_output") THEN st.policy_output.policies ELSE << >> IN
    IF validation_raises THEN Raised("validation error for AuditOutput")
    ELSE Returned(
        [interaction_id |-> "int_#",
         span_ids |-> <<"policy_#", "records_#", "action_#", "audit_#">>,
         citations |-> [i \in 1..Len(policies) |->
                           [source |-> "policy_database", doc_id |-> policies[i]._id,
                            version |-> policies[i].version, relevance_score |-> 95]],
         tool_receipts |-> IF Has(st, "action_output")
                              THEN SelectSeq(st.action_output.tool_receipts, Succeeded) ELSE << >>,
         final_verdict |-> IF Has(st, "action_output") THEN st.action_output.resolution ELSE "error",
         rationale |-> _generate_rationale(st)])

\* AuditAgent.process.  Building the output models is the one place where the
\* call can raise (a field of the wrong type fails validation).
AuditProcess(st, validation_raises) ==
    LET policies == IF Has(st, "policy_output") THEN st.policy_output.policies ELSE << >> IN
    IF validation_raises THEN Raised("validation error for AuditOutput")
    ELSE Returned(
        [interaction_id |-> "int_#",
         span_ids |-> <<"policy_#", "records_#", "action_#", "audit_#">>,
         citations |-> [i \in 1..Len(policies) |->
                           [source |-> "policy_database", doc_id |-> policies[i]._id,
                            version |-> policies[i].version, relevance_score |-> 95]],
         tool_receipts |-> IF Has(st, "action_output") THEN st.action_output.tool_receipts ELSE << >>,
         final_verdict |-> IF Has(st, "action_output") THEN st.action_output.resolution ELSE "error",
         rationale |-> _generate_rationale(st)])

audit_node ==
    /\ pc = "audit"
    /\ \E validation_raises \in BOOLEAN :
         LET res == AuditProcess(state, validation_raises)
             st1 == NodeResult(record_agent_timing(state, "audit", TRUE), "audit", res)
             st2 == IF res.raises THEN st1 ELSE Put(st1, "status", "completed")
         IN  /\ state' = record_agent_timing(
                             IF ~res.raises /\ Has(state, "action_output")
                                 THEN Put(st2, "resolution", state.action_output.resolution)
                                 ELSE st2,
                             "audit", FALSE)
             /\ raised' = Put(raised, "audit", IF res.raises THEN "validation" ELSE "")
    /\ ran' = Append(ran, "audit")
    /\ pc' = Edge("audit")
    /\ UNCHANGED <<local, toggles, llm, attempts, retrieved, parked>>

Next ==
    \/ records_node
    \/ policy_node
    \/ action_node
    \/ action_after_sentiment
    \/ action_after_intent
    \/ action_after_tool
    \/ audit_node

Spec == Init /\ [][Next]_vars

\* "python main.py" with its defaults: scenario index 0 and no toggle.
DefaultInit ==
    /\ Init
    /\ state.scenario = "refund_bluetooth_earbuds"
    /\ ~toggles.policy_force_old_version

\* The graph runtime runs node after node until END, and every awaited
\* collaborator call returns or raises.
FairSpec == DefaultInit /\ [][Next]_vars /\ WF_vars(Next)

\* ------------------------------------------------- the functions on their own
\* The pure functions of the agents, each called once on an input drawn from
\* its domain.  pc names the function about to be called; local holds its
\* arguments and, once it has returned, its result.
ReceiptStatuses == {200, 201, 500}
ReceiptLists == SeqsUpTo([tool : available_tools, status : ReceiptStatuses], MaxReceipts)

\* Every text llm.complete can answer with: any word, any wrapping, any case.
LLMAnswers ==
    {Returned([word |-> w, padded |-> p, upper |-> u]) : w \in LLMWords, p \in BOOLEAN, u \in BOOLEAN}
        \cup {Raised("llm.complete failed")}

\* The policy collection with one more expired US version, and what a vector
\* search over it can answer.
PolicyArchive ==
    PolicyDocs \cup
        { [_id |-> "policy_us_previous_000", region |-> "US", version |-> "v0", effective_from |-> 0, effective_until |-> <<1>>] }

ArchiveSearches ==
    {Returned(l) : l \in {s \in SeqsUpTo(PolicyArchive, MaxPolicies + 1) : Injective(s)}}
        \cup {Raised("search_vector_policies failed")}

\* What a fetch of the Records stage can answer with when called on its own:
\* a list of up to MaxFetched documents, told apart by a number, in either
\* order, or an exception.
Ascending(n) == [i \in 1..n |-> i]
Descending(n) == [i \in 1..n |-> n + 1 - i]
FetchAnswers ==
    {Returned(Ascending(n)) : n \in 0..MaxFetched}
        \cup {Returned(Descending(n)) : n \in 0..MaxFetched}
        \cup {Raised("fetch failed")}

UnitInit ==
    /\ \/ pc = "_determine_resolution" /\ local \in [tool_receipts : ReceiptLists]
       \/ pc = "records_node" /\ local \in [rq : FetchAnswers, tk : FetchAnswers, od : FetchAnswers]
       \/ pc = "first invocation" /\ local \in [order : SeqsUpTo(Order, 1), search : ArchiveSearches]
       \/ pc \in {"_classify_sentiment", "_classify_intent"} /\ local \in [response : LLMAnswers]
       \/ pc = "PolicyAgent.process" /\ local \in [order : SeqsUpTo(Order, 1), search : ArchiveSearches]
    /\ state = NoLocal
    /\ toggles \in [policy_force_old_version : BOOLEAN]
    /\ ran = << >>
    /\ raised = [x \in {} |-> ""]
    /\ llm = [x \in {} |-> ""]
    /\ attempts = [plan |-> << >>, outcomes |-> << >>, bodies |-> << >>, sync_result |-> ""]
    /\ retrieved = << >>
    /\ parked = << >>

call_determine_resolution ==
    /\ pc = "_determine_resolution"
    /\ local' = Put(local, "resolution", _determine_resolution(local.tool_receipts))
    /\ pc' = "returned"
    /\ UNCHANGED <<state, toggles, ran, raised, llm, attempts, retrieved, parked>>

call_classify_sentiment ==
    /\ pc = "_classify_sentiment"
    /\ local' = Put(local, "sentiment", _classify_sentiment(local.response))
    /\ pc' = "returned"
    /\ UNCHANGED <<state, toggles, ran, raised, llm, attempts, retrieved, parked>>

call_classify_intent ==
    /\ pc = "_classify_intent"
    /\ local' = Put(local, "intent", _classify_intent(local.response))
    /\ pc' = "returned"
    /\ UNCHANGED <<state, toggles, ran, raised, llm, attempts, retrieved, parked>>

\* PolicyAgent.process, called a first and then a second time with the same
\* arguments and the same answer of the search.
call_policy_process ==
    /\ pc = "PolicyAgent.process"
    /\ local' = Put(local, "first", PolicyProcess(local.order, local.search, ReadToggle(toggles, << >>)))
    /\ toggles' = TogglesAfterPolicy(toggles)
    /\ pc' = "PolicyAgent.process again"
    /\ UNCHANGED <<state, ran, raised, llm, attempts, retrieved, parked>>

call_policy_process_again ==
    /\ pc = "PolicyAgent.process again"
    /\ local' = Put(local, "second", PolicyProcess(local.order, local.search, ReadToggle(toggles, << >>)))
    /\ toggles' = TogglesAfterPolicy(toggles)
    /\ pc' = "returned"
    /\ UNCHANGED <<state, ran, raised, llm, attempts, retrieved, parked>>

\* Two invocations in one process with the toggle set in between: the Policy
\* stage of the first, set_toggle, the Policy stage of the second, on the same
\* order and search answer.
first_invocation ==
    /\ pc = "first invocation"
    /\ local' = Put(Put(local, "before", PolicyProcess(local.order, local.search, ReadToggle(toggles, << >>))),
                    "seen", <<ReadToggle(toggles, << >>)>>)
    /\ toggles' = TogglesAfterPolicy(toggles)
    /\ pc' = "set_toggle"
    /\ UNCHANGED <<state, ran, raised, llm, attempts, retrieved, parked>>

call_set_toggle ==
    /\ pc = "set_toggle"
    /\ \E value \in BOOLEAN :
         /\ toggles' = set_toggle(toggles, "policy_force_old_version", value)
         /\ local' = Put(local, "set_to", value)
    /\ pc' = "second invocation"
    /\ UNCHANGED <<state, ran, raised, llm, attempts, retrieved, parked>>

second_invocation ==
    /\ pc = "second invocation"
    /\ local' = Put(local, "after", PolicyProcess(local.order, local.search, ReadToggle(toggles, local.seen)))
    /\ toggles' = TogglesAfterPolicy(toggles)
    /\ pc' = "returned"
    /\ UNCHANGED <<state, ran, raised, llm, attempts, retrieved, parked>>

\* The records node run on an empty state with the three answers.
call_records_node ==
    /\ pc = "records_node"
    /\ state' = record_agent_timing(
                    NodeResult(record_agent_timing(state, "records", TRUE), "records",
                               RecordsProcess(local.rq, local.tk, local.od)),
                    "records", FALSE)
    /\ pc' = "returned"
    /\ UNCHANGED <<local, toggles, ran, raised, llm, attempts, retrieved, parked>>

UnitNext ==
    \/ call_records_node
    \/ first_invocation
    \/ call_set_toggle
    \/ second_invocation
    \/ call_determine_resolution
    \/ call_classify_sentiment
    \/ call_classify_intent
    \/ call_policy_process
    \/ call_policy_process_again

UnitSpec == UnitInit /\ [][UnitNext]_vars

\* ------------------------------------------ two invocations, one event loop
\* Two calls of graph.ainvoke as tasks of one asyncio event loop, each on its
\* own AgentState.  The variables of the pipeline hold the invocation that has
\* the thread; parked holds the one that is suspended.  The toggles belong to
\* the process and are not part of either.
Context ==
    [state |-> state, pc |-> pc, local |-> local, ran |-> ran, raised |-> raised,
     llm |-> llm, attempts |-> attempts, retrieved |-> retrieved]

\* Whether the tool call hands the thread back to the event loop before it
\* ends.  The plain-def tools run time.sleep and return; _explain_order_state
\* runs time.sleep and then awaits asyncio.sleep in real_llm_analysis, which it
\* reaches when there is an order and the user is not user_007.
ToolSuspends(tool_name, st) ==
    /\ tool_name = "explain_order_state"
    /\ st.records_output.orders # << >>
    /\ st.user_id # "user_007"

\* Whether the running invocation is at an await that suspends it: the graph
\* runtime between two nodes, an llm.complete call, or a tool call that
\* suspends.
Suspended ==
    IF pc = "await_tool" THEN ToolSuspends(local.tools_to_call[local.i], state) ELSE TRUE

\* The event loop resumes the other invocation.
resume_other ==
    /\ parked # << >>
    /\ Suspended
    /\ parked[1].pc # "END"
    /\ state' = parked[1].state
    /\ pc' = parked[1].pc
    /\ local' = parked[1].local
    /\ ran' = parked[1].ran
    /\ raised' = parked[1].raised
    /\ llm' = parked[1].llm
    /\ attempts' = parked[1].attempts
    /\ retrieved' = parked[1].retrieved
    /\ parked' = <<Context>>
    /\ UNCHANGED toggles

\* The answers the collaborators give in the concurrent runs: a user without
\* requests and tickets and with orders from the US, a search that finds none
\* or all of the region's policies, a neutral sentiment and an order inquiry,
\* tool bodies that return and an audit output that validates.
ConcurrentAnswers ==
    /\ Has(state, "records_output") =>
          /\ state.records_output.requests = << >>
          /\ state.records_output.tickets = << >>
          /\ \A i \in 1..Len(state.records_output.orders) : state.records_output.orders[i].country = "usa"
    /\ Len(retrieved) # 1
    /\ Has(llm, "sentiment") => llm["sentiment"] = [kind |-> "returned", label |-> "neutral"]
    /\ Has(llm, "intent") => llm["intent"] = [kind |-> "returned", label |-> "order_inquiry"]
    /\ \A k \in 1..Len(attempts.bodies) : attempts.bodies[k] = "returned"
    /\ Has(raised, "audit") => raised["audit"] = ""

ConcurrentInit ==
    /\ state \in {s \in SCENARIOS : s.user_id = "user_001"}
    /\ pc = EntryPoint
    /\ local = NoLocal
    /\ toggles \in [policy_force_old_version : BOOLEAN]
    /\ ran = << >>
    /\ raised = [x \in {} |-> ""]
    /\ llm = [x \in {} |-> ""]
    /\ attempts = [plan |-> << >>, outcomes |-> << >>, bodies |-> << >>, sync_result |-> ""]
    /\ retrieved = << >>
    /\ parked \in {<<[state |-> s, pc |-> EntryPoint, local |-> NoLocal, ran |-> << >>,
                      raised |-> [x \in {} |-> ""], llm |-> [x \in {} |-> ""],
                      attempts |-> [plan |-> << >>, outcomes |-> << >>, bodies |-> << >>, sync_result |-> ""],
                      retrieved |-> << >>]>> : s \in {t \in SCENARIOS : t.user_id = "user_007"}}

\* A step of the invocation that has the thread.
run_step == Next /\ ConcurrentAnswers'

ConcurrentNext ==
    \/ run_step
    \/ resume_other

ConcurrentSpec == ConcurrentInit /\ [][ConcurrentNext]_vars

\* ======================================================================
\* Properties
\* ======================================================================
Stages == <<"records", "policy", "action", "audit">>

IsPrefix(s, t) == Len(s) <= Len(t) /\ \A i \in 1..Len(s) : s[i] = t[i]

\* Why a finished node raised; "" when it did not raise or has not finished.
Why(node) == IF Has(raised, node) THEN raised[node] ELSE ""

Failed(node) == Why(node) # ""

\* The node whose body has just ended, "" before the first one ends.
JustFinished ==
    CASE pc = "policy" -> "records"
      [] pc \in {"action", "await_sentiment", "await_intent", "await_tool"} -> "policy"
      [] pc = "audit" -> "action"
      [] pc = "END" -> "audit"
      [] OTHER -> ""

C2_Theorem ==
    /\ pc = "END" => /\ Status = "completed" <=> ~Failed("audit")
                     /\ Failed("audit") => Status = "error"
                     /\ ran = Stages
    /\ (JustFinished # "" /\ Failed(JustFinished)) => Status = "error"

\* C2 witness: Records raised, the later stages ran, Audit did not raise and the
\* run ended completed.
C2_Witness ==
    pc = "END" /\ Failed("records") /\ ~Failed("audit") /\ Status = "completed" /\ Len(ran) = 4

\* C3 (as claimed): status only ever moves out of running.
C3_Claim == [][Status # Status' => Status = "running"]_vars

\* C4: a stage's exception stays inside its node: the node records status
\* error and its own failure message; at termination the error field holds the
\* message of the last stage that raised and is absent iff none raised.
LastFailed == CHOOSE i \in 1..4 : Failed(Stages[i]) /\ \A j \in 1..4 : Failed(Stages[j]) => j <= i

C4_Theorem ==
    /\ (JustFinished # "" /\ Failed(JustFinished)) =>
           /\ Status = "error"
           /\ Has(state, "error")
           /\ state.error[1] = FailureLabel(JustFinished)
    /\ pc = "END" =>
           /\ ran = Stages
           /\ Has(state, "error") <=> \E i \in 1..4 : Failed(Stages[i])
           /\ Has(state, "error") => state.error[1] = FailureLabel(Stages[LastFailed])

\* C4 witness: Records and Audit both raised; the error field holds Audit's message.
C4_Witness ==
    /\ pc = "END" /\ Failed("records") /\ Failed("audit")
    /\ Has(state, "error") /\ state.error[1] = "Audit agent failed"

\* C5 (as claimed): when Records fails and leaves its slot unset, Policy,
\* Action and Audit each run to completion without raising (a stage's own
\* store or validation failure aside).
OwnCollaboratorFailure == {"store", "validation"}

C5_Claim ==
    (Failed("records") /\ ~Has(state, "records_output")) =>
        \A n \in {"policy", "action", "audit"} : Why(n) \in {""} \cup OwnCollaboratorFailure

\* Some classification call of this run raised.
LLMRaised == \E c \in DOMAIN llm : llm[c].kind = "raised"

\* C6 (as claimed): a collaborator call that raises, LLM or store, is recovered
\* locally with a default and never fails its stage.
C6_Claim ==
    /\ \A n \in DOMAIN raised : raised[n] # "store"
    /\ (LLMRaised /\ Has(raised, "action")) => ~Failed("action")

\* C6 (amended): a classification call that raises is recovered with the
\* default label (neutral, general) and the Action node neither fails nor
\* changes status because of it; a store call that raises in Records or Policy
\* is not recovered: the stage fails, its slot stays unset and status is error
\* when its node ends.
C6_Theorem ==
    /\ (Has(llm, "sentiment") /\ llm["sentiment"].kind = "raised") => llm["sentiment"].label = "neutral"
    /\ (Has(llm, "intent") /\ llm["intent"].kind = "raised") => llm["intent"].label = "general"
    /\ (LLMRaised /\ Has(raised, "action")) => (~Failed("action") /\ Has(state, "action_output"))
    /\ (LLMRaised /\ pc = "audit") => (Status = "error" <=> Failed("policy"))
    /\ Why("records") = "store" => ~Has(state, "records_output")
    /\ Why("policy") = "store" => ~Has(state, "policy_output")
    /\ \A n \in {"action", "audit"} : Why(n) # "store"
    /\ (JustFinished \in {"records", "policy"} /\ Why(JustFinished) = "store") => Status = "error"

\* C6 witness: both classification calls raised and the Action node ended
\* with an output and status still running.
C6_Witness ==
    /\ pc = "audit" /\ Has(llm, "intent")
    /\ llm["sentiment"].kind = "raised" /\ llm["intent"].kind = "raised"
    /\ Has(state, "action_output") /\ Status = "running"

\* C7: a node writes no output slot but its own: a slot that is filled keeps
\* its value through every later step, and a slot gets filled only by a step of
\* its own node.
OutputSlots == {"records_output", "policy_output", "action_output", "audit_output"}

RunningNodeSlot ==
    CASE pc = "records" -> "records_output"
      [] pc = "policy" -> "policy_output"
      [] pc \in {"action", "await_sentiment", "await_intent", "await_tool"} -> "action_output"
      [] pc = "audit" -> "audit_output"
      [] OTHER -> ""

C7_Theorem ==
    [][\A k \in OutputSlots :
          /\ Has(state, k) => (Has(state', k) /\ state'[k] = state[k])
          /\ (~Has(state, k) /\ Has(state', k)) => k = RunningNodeSlot]_vars

\* C7 witness: Audit raised after the three earlier stages filled their slots,
\* which are all still there.
C7_Witness ==
    /\ pc = "END" /\ Failed("audit") /\ ~Has(state, "audit_output")
    /\ Has(state, "records_output") /\ Has(state, "policy_output") /\ Has(state, "action_output")

\* The tools of the plan while it is executed, and of the receipts afterwards.
PlannedTools ==
    IF Has(local, "tools_to_call") THEN local.tools_to_call
    ELSE IF Has(state, "action_output")
        THEN [i \in 1..Len(state.action_output.tool_receipts) |-> state.action_output.tool_receipts[i].tool]
        ELSE << >>

PlanKnown == Has(local, "tools_to_call") \/ Has(state, "action_output")

\* C8: a user with a ticket in status in_progress, open or escalated gets
\* update_ticket and never create_ticket; a user with no ticket at all gets
\* create_ticket and not update_ticket.
C8_Theorem ==
    PlanKnown =>
        LET tickets == state.records_output.tickets
            mine == {i \in 1..Len(tickets) : tickets[i].user_id = state.user_id}
            plan == Range(PlannedTools)
        IN  /\ (\E i \in mine : tickets[i].status \in {"in_progress", "open", "escalated"}) =>
                   ("update_ticket" \in plan /\ "create_ticket" \notin plan)
            /\ mine = {} => ("create_ticket" \in plan /\ "update_ticket" \notin plan)

\* C8 witness: the user's ticket is open, and the plan updates it instead of
\* creating one.
C8_Witness ==
    /\ pc = "await_tool"
    /\ Len(state.records_output.tickets) = 1
    /\ state.records_output.tickets[1].user_id = state.user_id
    /\ state.records_output.tickets[1].status \in active_statuses
    /\ "update_ticket" \in Range(local.tools_to_call)
    /\ "create_ticket" \notin Range(local.tools_to_call)

\* C9: with intent refund_request the plan holds create_refund_request and,
\* after it, explain_refund_state; with intent order_inquiry it holds
\* explain_order_state and neither refund tool.
C9_Theorem ==
    (PlanKnown /\ Has(llm, "intent")) =>
        LET plan == PlannedTools
            At(t) == {i \in 1..Len(plan) : plan[i] = t}
        IN  /\ llm["intent"].label = "refund_request" =>
                   /\ At("create_refund_request") # {}
                   /\ At("explain_refund_state") # {}
                   /\ \A i \in At("create_refund_request"), j \in At("explain_refund_state") : i < j
            /\ llm["intent"].label = "order_inquiry" =>
                   /\ At("explain_order_state") # {}
                   /\ At("create_refund_request") = {}
                   /\ At("explain_refund_state") = {}

\* C9 witness: a refund_request plan under execution, the escalation first.
C9_Witness ==
    /\ pc = "await_tool" /\ llm["intent"].label = "refund_request"
    /\ local.tools_to_call = <<"escalate_ticket", "create_refund_request", "explain_refund_state", "create_ticket">>

\* C10: with sentiment negative escalate_ticket is in the plan and is the first
\* tool attempted, so that the first receipt is its receipt; otherwise
\* escalate_ticket is not in the plan.
C10_Theorem ==
    (PlanKnown /\ Has(llm, "sentiment")) =>
        LET plan == PlannedTools
            receipts == IF Has(local, "tool_receipts") THEN local.tool_receipts
                        ELSE IF Has(state, "action_output") THEN state.action_output.tool_receipts
                        ELSE << >>
        IN  /\ llm["sentiment"].label = "negative" =>
                   /\ plan # << >> /\ plan[1] = "escalate_ticket"
                   /\ receipts # << >> => receipts[1].tool = "escalate_ticket"
            /\ llm["sentiment"].label # "negative" =>
                   /\ "escalate_ticket" \notin Range(plan)
                   /\ \A i \in 1..Len(receipts) : receipts[i].tool # "escalate_ticket"

\* C10 witness: a finished Action stage after a negative classification whose
\* first receipt is the escalation's, a failed one.
C10_Witness ==
    /\ Has(state, "action_output") /\ Has(llm, "sentiment") /\ llm["sentiment"].label = "negative"
    /\ state.action_output.tool_receipts[1].tool = "escalate_ticket"
    /\ state.action_output.tool_receipts[1].status = 500
    /\ Len(state.action_output.tool_receipts) > 1

\* C11: the resolution is decided by the set of tools that succeeded (status
\* in [200,300)), by the priority create_refund_request > escalate_ticket >
\* update_ticket > create_ticket > explain_refund_state, whatever the order of
\* the receipts; when none of the five succeeded it is action_failed.
ResolutionPriority ==
    <<"create_refund_request", "escalate_ticket", "update_ticket", "create_ticket", "explain_refund_state">>

C11_Theorem ==
    (pc = "returned" /\ Has(local, "resolution") /\ local.tool_receipts # << >>) =>
        LET rs == local.tool_receipts
            ok == {rs[i].tool : i \in {j \in 1..Len(rs) : rs[j].status >= 200 /\ rs[j].status < 300}}
            ranked == {k \in 1..Len(ResolutionPriority) : ResolutionPriority[k] \in ok}
            best == CHOOSE k \in ranked : \A m \in ranked : k <= m
        IN  local.resolution =
                IF ranked = {} THEN "action_failed"
                ELSE CASE ResolutionPriority[best] = "create_refund_request" -> "refund_request_created"
                       [] ResolutionPriority[best] = "escalate_ticket"       -> "ticket_escalated"
                       [] ResolutionPriority[best] = "update_ticket"         -> "ticket_updated"
                       [] ResolutionPriority[best] = "create_ticket"         -> "ticket_created"
                       [] ResolutionPriority[best] = "explain_refund_state"  -> "refund_state_explained"

\* C11 witness: update_ticket succeeded before create_refund_request did, and
\* the resolution is refund_request_created.
C11_Witness ==
    /\ pc = "returned" /\ Has(local, "resolution")
    /\ Len(local.tool_receipts) >= 2
    /\ local.tool_receipts[1] = [tool |-> "update_ticket", status |-> 200]
    /\ local.tool_receipts[2] = [tool |-> "create_refund_request", status |-> 201]
    /\ local.resolution = "refund_request_created"

\* The receipts collected so far: of the loop while it runs, of the Action
\* Output afterwards.
ReceiptsSoFar ==
    IF Has(local, "tool_receipts") THEN local.tool_receipts
    ELSE IF Has(state, "action_output") THEN state.action_output.tool_receipts
    ELSE << >>

\* C12: a tool call that raises becomes a failure receipt and the plan goes
\* on: while the plan runs there is one receipt per tool attempted, in plan
\* order; the Action stage ends with an output whatever subset of the calls
\* raised, and that output holds exactly one receipt per planned tool, in plan
\* order.
C12_Theorem ==
    /\ pc = "await_tool" =>
           /\ Len(local.tool_receipts) = local.i - 1
           /\ Len(attempts.outcomes) = local.i - 1
           /\ \A k \in 1..Len(local.tool_receipts) : local.tool_receipts[k].tool = attempts.plan[k]
    /\ (Has(raised, "action") /\ Has(state, "records_output")) =>
           /\ ~Failed("action") /\ Has(state, "action_output")
           /\ Len(attempts.outcomes) = Len(attempts.plan)
           /\ Len(state.action_output.tool_receipts) = Len(attempts.plan)
           /\ \A k \in 1..Len(attempts.plan) : state.action_output.tool_receipts[k].tool = attempts.plan[k]

\* C12 witness: the first call of a four-tool plan raised, and the output
\* holds four receipts, the last one of a call that returned.
C12_Witness ==
    /\ Has(state, "action_output") /\ Len(attempts.plan) = 4
    /\ attempts.outcomes[1] = "raised" /\ attempts.outcomes[4] = "returned"
    /\ Len(state.action_output.tool_receipts) = 4
    /\ state.action_output.tool_receipts[4].status \in {200, 201}

\* C13: every receipt has a status in [200,300) or exactly 500; it is 500
\* exactly when the tool call raised, and the payload then has an error key.
C13_Theorem ==
    \A k \in 1..Len(ReceiptsSoFar) :
        LET receipt == ReceiptsSoFar[k] IN
        /\ (200 <= receipt.status /\ receipt.status < 300) \/ receipt.status = 500
        /\ receipt.status = 500 <=> attempts.outcomes[k] = "raised"
        /\ receipt.status = 500 => Has(receipt.response, "error")
        /\ receipt.status # 500 => ~Has(receipt.response, "error")

\* C13 witness: an Action Output with a failure receipt, carrying the error
\* key, next to a success receipt.
C13_Witness ==
    /\ Has(state, "action_output")
    /\ \E j, k \in 1..Len(state.action_output.tool_receipts) :
          /\ state.action_output.tool_receipts[j].status = 500
          /\ attempts.outcomes[j] = "raised"
          /\ Has(state.action_output.tool_receipts[j].response, "error")
          /\ state.action_output.tool_receipts[k].status = 200
          /\ attempts.outcomes[k] = "returned"

RECURSIVE SumToolCosts(_)
SumToolCosts(receipts) ==
    IF receipts = << >> THEN 0
    ELSE _calculate_tool_cost(Head(receipts).tool) + SumToolCosts(Tail(receipts))

\* C14: the cumulative cost is the base classification cost plus the per-tool
\* cost of every tool attempted, one increment per receipt, whether the tool
\* succeeded or failed.
C14_Theorem ==
    /\ pc = "await_tool" => local.total_cost = BaseCost + SumToolCosts(local.tool_receipts)
    /\ Has(state, "action_output") =>
           /\ state.action_output.cost_token_usd = BaseCost + SumToolCosts(state.action_output.tool_receipts)
           /\ Len(state.action_output.tool_receipts) = Len(attempts.outcomes)

\* C14 witness: escalate_ticket failed, create_ticket succeeded, and the cost
\* is base + 0.0030 + 0.0015.
C14_Witness ==
    /\ Has(state, "action_output")
    /\ attempts.plan = <<"escalate_ticket", "create_ticket">>
    /\ attempts.outcomes = <<"raised", "returned">>
    /\ state.action_output.cost_token_usd = 65

\* C15: whatever the classifier answers (a label of the enumeration, possibly
\* wrapped in whitespace or in upper case, a text outside the enumeration, or
\* an exception), sentiment classification yields negative, positive or
\* neutral, neutral for an exception or a text outside the enumeration, and
\* intent classification yields refund_request, order_inquiry or general,
\* general for an exception or a text outside the enumeration.
C15_Theorem ==
    pc = "returned" =>
        /\ Has(local, "sentiment") =>
               /\ local.sentiment \in {"negative", "positive", "neutral"}
               /\ (local.response.raises \/ local.response.value.word \notin {"negative", "positive", "neutral"})
                      => local.sentiment = "neutral"
               /\ (~local.response.raises /\ local.response.value.word \in {"negative", "positive", "neutral"})
                      => local.sentiment = local.response.value.word
        /\ Has(local, "intent") =>
               /\ local.intent \in {"refund_request", "order_inquiry", "general"}
               /\ (local.response.raises \/ local.response.value.word \notin {"refund_request", "order_inquiry", "general"})
                      => local.intent = "general"
               /\ (~local.response.raises /\ local.response.value.word \in {"refund_request", "order_inquiry", "general"})
                      => local.intent = local.response.value.word

\* C15 witness: the sentiment classifier was answered with an intent label,
\* which is outside its enumeration, and yielded neutral.
C15_Witness ==
    /\ pc = "returned" /\ Has(local, "sentiment")
    /\ ~local.response.raises /\ local.response.value.word = "refund_request"
    /\ local.sentiment = "neutral"

\* The first call of PolicyAgent.process has returned a Policy Output.
PolicyReturned == Has(local, "first") /\ ~local.first.raises

\* The policies the search answered with for the region of the order, as a
\* set and in the order of the answer, and the expired ones among them.
Candidates == {p \in Range(local.search.value) : p.region = DeriveRegion(local.order)}

CandidatesInOrder ==
    LET answer == local.search.value
        At(i) == Cardinality({j \in 1..i : answer[j] \in Candidates})
    IN  [k \in 1..Cardinality(Candidates) |->
            answer[CHOOSE i \in 1..Len(answer) : answer[i] \in Candidates /\ At(i) = k]]

ExpiredCandidates == {p \in Candidates : p.effective_until # << >>}

DriftApplies == toggles.policy_force_old_version /\ ExpiredCandidates # {}

\* C16: with the force-old-version toggle on and an expired policy among the
\* candidates of the region, the Policy Output holds exactly the expired
\* candidates, each once, newest effective_from first; in every other case it
\* holds exactly the candidates.
C16_Theorem ==
    PolicyReturned =>
        LET out == local.first.value.policies IN
        IF DriftApplies
            THEN /\ Range(out) = ExpiredCandidates
                 /\ Len(out) = Cardinality(ExpiredCandidates)
                 /\ \A i, j \in 1..Len(out) : i < j => out[i].effective_from >= out[j].effective_from
            ELSE /\ Range(out) = Candidates
                 /\ Len(out) = Cardinality(Candidates)

\* C16 witness: the answer lists the older expired US policy before the newer
\* one and the current one; the output is the two expired ones, newer first.
C16_Witness ==
    /\ PolicyReturned /\ DriftApplies
    /\ Cardinality(Candidates) = 3
    /\ local.search.value[1]._id = "policy_us_previous_000"
    /\ Len(local.first.value.policies) = 2
    /\ local.first.value.policies[1]._id = "policy_us_previous_001"
    /\ local.first.value.policies[2]._id = "policy_us_previous_000"

\* C17 (as claimed): when drift selection does not apply the policies of the
\* output are ordered oldest to newest by effective_from.
C17_Claim ==
    (PolicyReturned /\ ~DriftApplies) =>
        LET out == local.first.value.policies IN
        \A i, j \in 1..Len(out) : i < j => out[i].effective_from <= out[j].effective_from

\* C17 (amended): when drift selection does not apply the policies of the
\* output are the candidates of the region in the order in which the search
\* answered them; they are not sorted.
C17_Theorem ==
    (PolicyReturned /\ ~DriftApplies) => local.first.value.policies = CandidatesInOrder

\* C17 witness: the toggle is off and the search answers with the current US
\* policy before the expired one; the output keeps that order.
C17_Witness ==
    /\ PolicyReturned /\ ~toggles.policy_force_old_version
    /\ Len(local.first.value.policies) = 2
    /\ local.first.value.policies[1]._id = "policy_us_current_001"
    /\ local.first.value.policies[2]._id = "policy_us_previous_001"

RationaleParts(kind) ==
    LET IsKind(part) == part.kind = kind IN SelectSeq(state.audit_output.rationale, IsKind)

\* The policies of the Policy Output (none when the Policy stage failed).
OutputPolicies == IF Has(state, "policy_output") THEN state.policy_output.policies ELSE << >>

\* C19: the rationale holds the drift warning exactly when some policy of the
\* Policy Output has an effective_until, and the warning names the version and
\* the expiry of the first such policy; when the toggle is on and the region
\* has one current and one expired policy, the Policy Output is the expired
\* policy alone and the warning names its version and expiry.
C19_Theorem ==
    Has(state, "audit_output") =>
        LET expired == {i \in 1..Len(OutputPolicies) : OutputPolicies[i].effective_until # << >>}
            first == CHOOSE i \in expired : \A j \in expired : i <= j
            warnings == RationaleParts("drift")
        IN  /\ Len(warnings) = IF expired = {} THEN 0 ELSE 1
            /\ expired # {} =>
                   /\ warnings[1].version = OutputPolicies[first].version
                   /\ warnings[1].effective_until = OutputPolicies[first].effective_until[1]
            /\ ( /\ toggles.policy_force_old_version /\ Has(state, "policy_output")
                 /\ Len(retrieved) = 2
                 /\ \E c, x \in 1..2 : retrieved[c].effective_until = << >> /\ retrieved[x].effective_until # << >> )
                   => LET old == retrieved[CHOOSE x \in 1..2 : retrieved[x].effective_until # << >>] IN
                      /\ OutputPolicies = <<old>>
                      /\ warnings = <<[kind |-> "drift", version |-> old.version,
                                       effective_until |-> old.effective_until[1]]>>

\* C19 witness: the drift scenario; the search answered the current EU policy
\* before the expired one, and the audit warns of v1, effective until 2.
C19_Witness ==
    /\ Has(state, "audit_output") /\ toggles.policy_force_old_version
    /\ Len(retrieved) = 2 /\ retrieved[1]._id = "policy_eu_current_001"
    /\ retrieved[2]._id = "policy_eu_previous_001"
    /\ Len(OutputPolicies) = 1 /\ OutputPolicies[1]._id = "policy_eu_previous_001"
    /\ RationaleParts("drift") = <<[kind |-> "drift", version |-> "v1", effective_until |-> 2]>>

\* C20: with an Action Output the audit's receipts are the action's receipts,
\* same order and content, the verdict is the action's resolution and the
\* rationale states that resolution; without one the audit has no receipts,
\* the verdict is "error" and the rationale carries the action-failure note in
\* place of a resolution.
C20_Theorem ==
    Has(state, "audit_output") =>
        LET audit == state.audit_output IN
        IF Has(state, "action_output")
            THEN /\ audit.tool_receipts = state.action_output.tool_receipts
                 /\ audit.final_verdict = state.action_output.resolution
                 /\ RationaleParts("resolution") =
                        <<[kind |-> "resolution", resolution |-> state.action_output.resolution]>>
                 /\ RationaleParts("action_failed_note") = << >>
            ELSE /\ audit.tool_receipts = << >>
                 /\ audit.final_verdict = "error"
                 /\ RationaleParts("action_failed_note") = <<[kind |-> "action_failed_note"]>>
                 /\ RationaleParts("resolution") = << >>

\* C20 witness: an audit over an Action Output with a failed and a succeeded
\* receipt, both mirrored.
C20_Witness ==
    /\ Has(state, "audit_output") /\ Has(state, "action_output")
    /\ Len(state.audit_output.tool_receipts) = 2
    /\ state.audit_output.tool_receipts[1].status = 500
    /\ state.audit_output.tool_receipts[2].status = 201
    /\ state.audit_output.final_verdict = "ticket_created"

\* The user of this run has no ticket among the fetched ones.
NoTicketOfUser ==
    \A i \in 1..Len(state.records_output.tickets) : state.records_output.tickets[i].user_id # state.user_id

\* C21 (as claimed): for a user with no ticket, a sentiment that is not
\* negative and the intent refund_request, the Action stage attempts exactly
\* create_refund_request, explain_refund_state, create_ticket in that order
\* and, when no tool body raises, its resolution is refund_request_created.
C21_Claim ==
    ( /\ Has(state, "action_output") /\ NoTicketOfUser
      /\ llm["sentiment"].label # "negative" /\ llm["intent"].label = "refund_request" ) =>
        /\ attempts.plan = <<"create_refund_request", "explain_refund_state", "create_ticket">>
        /\ [k \in 1..Len(state.action_output.tool_receipts) |-> state.action_output.tool_receipts[k].tool]
               = attempts.plan
        /\ (\A k \in 1..Len(attempts.bodies) : attempts.bodies[k] = "returned")
               => state.action_output.resolution = "refund_request_created"

StageSet == {Stages[i] : i \in 1..Len(Stages)}

\* C22: when the run has ended, each of the two timing maps holds exactly the
\* four stage names, each stage's start was read before its own end, and each
\* stage's start was read after the end of the stage before it, whether the
\* stages returned or raised.
C22_Theorem ==
    pc = "END" =>
        /\ DOMAIN TimesOf(state, "agent_start_times") = StageSet
        /\ DOMAIN TimesOf(state, "agent_end_times") = StageSet
        /\ \A i \in 1..Len(Stages) :
               state.agent_start_times[Stages[i]] < state.agent_end_times[Stages[i]]
        /\ \A i \in 2..Len(Stages) :
               state.agent_end_times[Stages[i - 1]] < state.agent_start_times[Stages[i]]

\* A finished run in which a stage raised and another returned, all timed.
C22_Witness ==
    /\ pc = "END" /\ Failed("records") /\ Failed("action") /\ ~Failed("audit")
    /\ DOMAIN TimesOf(state, "agent_end_times") = StageSet
    /\ state.agent_start_times["records"] < state.agent_end_times["records"]
    /\ state.agent_end_times["action"] < state.agent_start_times["audit"]

C24_Claim ==
    (pc = "await_tool" /\ parked # << >> /\ parked[1].pc # "END") => Suspended

\* C25: when the force-old-version toggle is set between two invocations in
\* one process, the Policy stage of the second selects as a Policy stage that
\* has only ever seen the new value does.
C25_Theorem ==
    (pc = "returned" /\ Has(local, "after")) =>
        local.after = PolicyProcess(local.order, local.search, local.set_to)

\* The toggle was switched on between the invocations and the second one
\* answered with the expired policy where the first kept the current one.
C25_Witness ==
    /\ pc = "returned" /\ Has(local, "after")
    /\ local.seen = <<FALSE>> /\ local.set_to
    /\ ~local.before.raises /\ ~local.after.raises
    /\ local.before.value.policies # local.after.value.policies
    /\ \A i \in 1..Len(local.after.value.policies) : IsExpired(local.after.value.policies[i])

Min(a, b) == IF a <= b THEN a ELSE b

\* s is the first n items of t, or all of t when t has fewer.
FirstOf(s, t, n) == Len(s) = Min(Len(t), n) /\ \A i \in 1..Len(s) : s[i] = t[i]

\* C26: the Records stage returns the first 3 requests, the first 5 tickets and
\* the first 5 orders, in the order the collaborator answered and otherwise as
\* they came; when a fetch raises the stage raises and the records slot stays
\* unset, whatever the earlier fetches returned.
C26_Theorem ==
    (pc = "returned" /\ Has(local, "rq")) =>
        IF local.rq.raises \/ local.tk.raises \/ local.od.raises
            THEN ~Has(state, "records_output") /\ Status = "error"
            ELSE /\ Has(state, "records_output")
                 /\ FirstOf(state.records_output.requests, local.rq.value, 3)
                 /\ FirstOf(state.records_output.tickets, local.tk.value, 5)
                 /\ FirstOf(state.records_output.orders, local.od.value, 5)

\* Each fetch answered with more than the stage keeps.
C26_Witness ==
    /\ pc = "returned" /\ Has(local, "rq") /\ Has(state, "records_output")
    /\ local.rq.value = <<4, 3, 2, 1>> /\ state.records_output.requests = <<4, 3, 2>>
    /\ Len(local.tk.value) = 6 /\ Len(state.records_output.tickets) = 5
    /\ Len(local.od.value) = 6 /\ state.records_output.orders = <<1, 2, 3, 4, 5>>

\* C27: the steps of one run of the Action stage follow one another: while the
\* sentiment call is awaited nothing else has been started, the intent call is
\* awaited only once the sentiment call has ended, a tool is called only once
\* the intent call has ended, and the k-th tool is called only when the
\* receipts of the k - 1 tools before it are recorded.
C27_Theorem ==
    /\ pc = "await_sentiment" =>
          ~Has(llm, "sentiment") /\ ~Has(llm, "intent") /\ attempts.outcomes = << >>
    /\ pc = "await_intent" =>
          Has(llm, "sentiment") /\ ~Has(llm, "intent") /\ attempts.outcomes = << >>
    /\ pc = "await_tool" =>
          /\ Has(llm, "sentiment") /\ Has(llm, "intent")
          /\ Len(attempts.outcomes) = local.i - 1
          /\ Len(local.tool_receipts) = local.i - 1
          /\ \A k \in 1..Len(local.tool_receipts) : local.tool_receipts[k].tool = attempts.plan[k]
    /\ attempts.outcomes # << >> => Has(llm, "intent")
    /\ Has(llm, "intent") => Has(llm, "sentiment")

\* The third tool of a plan is about to be called, two receipts are recorded.
C27_Witness ==
    /\ pc = "await_tool" /\ local.i = 3
    /\ Len(local.tool_receipts) = 2 /\ Len(attempts.outcomes) = 2
    /\ Has(llm, "sentiment") /\ Has(llm, "intent")

\* C28 (as claimed): the resolution is action_failed exactly when a tool was
\* attempted and no receipt has a status in [200, 300); a successful
\* explain_order_state is enough for a resolution other than action_failed.
C28_Claim ==
    Has(state, "action_output") =>
        LET receipts == state.action_output.tool_receipts IN
        (state.action_output.resolution = "action_failed")
            <=> (receipts # << >> /\ \A k \in 1..Len(receipts) : ~Succeeded(receipts[k]))

TicketTools == {"create_ticket", "update_ticket"}

\* C29: whatever the sentiment, the intent and the tickets, the plan holds
\* exactly one of create_ticket and update_ticket, as its last element, holds
\* no tool twice and has one to four tools; so the Action stage never returns
\* no_action_required.
C29_Theorem ==
    /\ Has(llm, "intent") =>
          LET plan == attempts.plan IN
          /\ Len(plan) \in 1..4
          /\ Cardinality({k \in 1..Len(plan) : plan[k] \in TicketTools}) = 1
          /\ plan[Len(plan)] \in TicketTools
          /\ Injective(plan)
    /\ Has(state, "action_output") => state.action_output.resolution # "no_action_required"

\* A general query with a sentiment that is not negative: the ticket tool is
\* the whole plan, and the stage has returned.
C29_Witness ==
    /\ Has(state, "action_output") /\ Has(llm, "intent")
    /\ llm["intent"].label = "general" /\ llm["sentiment"].label # "negative"
    /\ Len(attempts.plan) = 1 /\ attempts.plan[1] \in TicketTools
    /\ Len(state.action_output.tool_receipts) = 1

\* The tools the rationale lists as succeeded, and those it lists as failed.
ListedSucceeded ==
    UNION {Range(RationaleParts("succeeded")[j].tools) : j \in 1..Len(RationaleParts("succeeded"))}

ListedFailed ==
    UNION {{pair[1] : pair \in Range(RationaleParts("failed")[j].tools)} : j \in 1..Len(RationaleParts("failed"))}

\* The tools the rationale has a detail line for.
Detailed == {RationaleParts("detail")[j].tool : j \in 1..Len(RationaleParts("detail"))}

\* C30 (as claimed): the rationale lists every receipt in exactly one of the
\* groups of succeeded and of failed tools, and has no detail line saying that
\* the action of a tool was carried out when the tool's receipt has a status
\* outside [200, 300).
C30_Claim ==
    Has(state, "audit_output") =>
        LET receipts == state.audit_output.tool_receipts IN
        \A k \in 1..Len(receipts) :
            /\ Succeeded(receipts[k]) =>
                  receipts[k].tool \in ListedSucceeded /\ receipts[k].tool \notin ListedFailed
            /\ ~Succeeded(receipts[k]) =>
                  /\ receipts[k].tool \in ListedFailed /\ receipts[k].tool \notin ListedSucceeded
                  /\ receipts[k].tool \notin Detailed
====
